---- MODULE Spec2Model ----
(***************************************************************************)
(* A model of curl_runner.py: a YAML-driven runner that builds a curl      *)
(* command line from a request specification, resolves a bearer token      *)
(* through a secondary request when the Authorization header holds a       *)
(* bracketed reference, runs curl and parses its output.                   *)
(*                                                                         *)
(* Text is modelled as a sequence of one-character strings, so that the    *)
(* slicing, stripping, searching and substitution of the program are       *)
(* computed character by character.                                        *)
(***************************************************************************)
EXTENDS Integers, Sequences, FiniteSets, TLC

VARIABLES
    \* ---- a run of main() ----
    pc,          \* position of main: see MainPcs
    args,        \* parse_args(): [show_header, show_command]
    config,      \* the primary Request Specification (mutated by the resolver)
    config0,     \* the specification as loaded (history, for the claims)
    ret,         \* the value needs_bearer_token returned
    errorKind,   \* which handle_error() message was printed, or "none"
    exception,   \* the uncaught exception that ended the run, or "none"
    exitStatus,  \* the process exit status: -1 while running
    events,      \* history: command builds and external processes, in order
    token,       \* history of the token request: its output and what was parsed
    cmd,         \* the primary command (prepare_and_run_curl)
    shown,       \* what display_result printed
    \* ---- parse_curl_output applied to a captured text ----
    pIn,         \* [R, ddd, output]: the captured text is R followed by the marker
    pOut,        \* [called, show_headers, header, body, http_code]
    \* ---- build_curl_command applied to a specification ----
    bIn,         \* [config, show_headers]
    bOut         \* [calls, first, second, after]

mainVars == <<pc, args, config, config0, ret, errorKind, exception, exitStatus,
              events, token, cmd, shown>>
parseVars == <<pIn, pOut>>
buildVars == <<bIn, bOut>>
vars == <<mainVars, parseVars, buildVars>>

(***************************************************************************)
(* Characters and text                                                     *)
(***************************************************************************)
LF == "\n"
CR == "\r"
TAB == "\t"
BSL == "\\"
QUOTE == "\""

\* str.strip() with no argument removes whitespace characters.
Whitespace == {" ", LF, CR, TAB}

Min(a, b) == IF a < b THEN a ELSE b
Max(a, b) == IF a > b THEN a ELSE b

\* All sequences over S of length at most n.
SeqsUpTo(S, n) == UNION {[1..k -> S] : k \in 0..n}

\* s[i:] and s[:j] of Python, 1-based here: Drop removes the first n characters.
Drop(s, n) == SubSeq(s, Min(n, Len(s)) + 1, Len(s))
Take(s, n) == SubSeq(s, 1, Min(n, Len(s)))

\* s[-n:] : the last n characters (the whole text when it is shorter).
LastChars(s, n) == Drop(s, Max(Len(s) - n, 0))
\* s[:-n] : all but the last n characters (empty when the text is shorter).
ButLastChars(s, n) == Take(s, Max(Len(s) - n, 0))

RECURSIVE lstrip(_)
lstrip(s) == IF s # <<>> /\ Head(s) \in Whitespace THEN lstrip(Tail(s)) ELSE s

RECURSIVE rstrip(_)
rstrip(s) ==
    IF s # <<>> /\ s[Len(s)] \in Whitespace THEN rstrip(SubSeq(s, 1, Len(s) - 1)) ELSE s

strip(s) == rstrip(lstrip(s))

\* Whether sub occurs in s at position i.
OccursAt(s, sub, i) ==
    /\ i >= 1
    /\ i + Len(sub) - 1 <= Len(s)
    /\ SubSeq(s, i, i + Len(sub) - 1) = sub

\* str.find, 1-based: the first position where sub occurs, 0 when it does not.
find(s, sub) ==
    LET hits == {i \in 1..Len(s) : OccursAt(s, sub, i)}
    IN  IF hits = {} THEN 0 ELSE CHOOSE i \in hits : \A j \in hits : i <= j

\* str.partition: (before, sep, after) at the first occurrence of sep, and
\* (s, '', '') when sep does not occur.
partition(s, sep) ==
    LET i == find(s, sep)
    IN  IF i = 0 THEN <<s, <<>>, <<>>>>
        ELSE <<SubSeq(s, 1, i - 1), sep, Drop(s, i + Len(sep) - 1)>>

(***************************************************************************)
(* parse_curl_output                                                       *)
(***************************************************************************)
\* The width of the status code taken from the end of the text.
StatusWidth == 3
\* The width of the suffix cut off the text: 'HTTP Status: ' and the code.
MarkerWidth == 16

StatusLabel == <<"H", "T", "T", "P", " ", "S", "t", "a", "t", "u", "s", ":", " ">>

\* What curl writes for -w '\nHTTP Status: %{http_code}\n' after the response.
WriteOut(http_code) == <<LF>> \o StatusLabel \o http_code \o <<LF>>

HeaderSeparator == <<CR, LF, CR, LF>>
BareSeparator == <<LF, LF>>

\* A slip: only the label is cut off, the status code is left.
full_response_label_only(output) ==
    ButLastChars(strip(output), MarkerWidth - StatusWidth)

\* The text before the status suffix.
full_response_of(output) == ButLastChars(strip(output), MarkerWidth)

\* The (header, unused, body) split of the response when headers were requested.
split_headers(full_response) ==
    LET first == partition(full_response, HeaderSeparator)
    IN  IF first[3] = <<>> THEN partition(full_response, BareSeparator) ELSE first

parse_curl_output(output, show_headers) ==
    LET http_code == LastChars(strip(output), StatusWidth)
        full_response == full_response_of(output)
        parts == split_headers(full_response)
    IN  IF show_headers
        THEN [header |-> strip(parts[1]), body |-> strip(parts[3]), http_code |-> http_code]
        ELSE [header |-> <<>>, body |-> strip(full_response), http_code |-> http_code]

(***************************************************************************)
(* Specification ParseSpec: parse_curl_output applied to what curl         *)
(* captures, a response R followed by the write-out marker.                *)
(***************************************************************************)
\* The longest response R.
MaxResponseLen == 7

ResponseAlphabet == {"a", LF, CR}
StatusCodes == {<<"2", "0", "0">>, <<"4", "0", "4">>}

ParseInputs ==
    {[R |-> r, ddd |-> d, output |-> r \o WriteOut(d)] :
        r \in SeqsUpTo(ResponseAlphabet, MaxResponseLen), d \in StatusCodes}

NotParsed == [called |-> FALSE, show_headers |-> FALSE,
              header |-> <<>>, body |-> <<>>, http_code |-> <<>>]

ParseCall(show_headers) ==
    /\ ~pOut.called
    /\ pOut' = [called |-> TRUE, show_headers |-> show_headers]
                 @@ parse_curl_output(pIn.output, show_headers)
    /\ UNCHANGED <<pIn, mainVars, buildVars>>

ParsePlain == ParseCall(FALSE)
ParseWithHeaders == ParseCall(TRUE)

(***************************************************************************)
(* Request specifications: the mapping yaml.safe_load returns.  keys holds *)
(* the names of the fields the document has; a field it does not have      *)
(* holds the empty value.  A mapping (params, headers) is the sequence of  *)
(* its <<key, value>> pairs in insertion order, keys distinct.             *)
(***************************************************************************)
Str_GET == <<"G", "E", "T">>
Str_POST == <<"P", "O", "S", "T">>
Str_PUT == <<"P", "U", "T">>
Str_Authorization ==
    <<"A", "u", "t", "h", "o", "r", "i", "z", "a", "t", "i", "o", "n">>

LowerLetters == <<"a", "b", "c", "d", "e", "f", "g", "h", "i", "j", "k", "l", "m",
                  "n", "o", "p", "q", "r", "s", "t", "u", "v", "w", "x", "y", "z">>
UpperLetters == <<"A", "B", "C", "D", "E", "F", "G", "H", "I", "J", "K", "L", "M",
                  "N", "O", "P", "Q", "R", "S", "T", "U", "V", "W", "X", "Y", "Z">>
Digits == {"0", "1", "2", "3", "4", "5", "6", "7", "8", "9"}
Letters == {LowerLetters[i] : i \in 1..26} \cup {UpperLetters[i] : i \in 1..26}

\* str.upper()
upper_char(c) ==
    IF \E i \in 1..26 : LowerLetters[i] = c
    THEN UpperLetters[CHOOSE i \in 1..26 : LowerLetters[i] = c]
    ELSE c
upper(s) == [i \in 1..Len(s) |-> upper_char(s[i])]

\* The text of a sequence of texts joined by sep.
RECURSIVE join(_, _)
join(sep, parts) ==
    IF parts = <<>> THEN <<>>
    ELSE IF Len(parts) = 1 THEN parts[1]
    ELSE parts[1] \o sep \o join(sep, Tail(parts))

RECURSIVE concat(_)
concat(parts) == IF parts = <<>> THEN <<>> ELSE Head(parts) \o concat(Tail(parts))

\* dict.get(key): [some |-> FALSE] stands for None.
dict_get(d, key) ==
    IF \E i \in 1..Len(d) : d[i][1] = key
    THEN [some |-> TRUE, val |-> d[CHOOSE i \in 1..Len(d) : d[i][1] = key][2]]
    ELSE [some |-> FALSE, val |-> <<>>]

\* d[key] = value for a key the mapping has: the pair keeps its place.
dict_set(d, key, value) ==
    [i \in 1..Len(d) |-> IF d[i][1] = key THEN <<key, value>> ELSE d[i]]

\* urllib.parse.quote_plus on the characters of the model: unreserved
\* characters stay, a space becomes '+', the others are percent-encoded.
Unreserved == Letters \cup Digits \cup {"_", ".", "-", "~"}
PercentCode ==
    [c \in {"&", "=", "?", "/", ":", "+", "%", "[", "]"} |->
        CASE c = "&" -> <<"%", "2", "6">>
          [] c = "=" -> <<"%", "3", "D">>
          [] c = "?" -> <<"%", "3", "F">>
          [] c = "/" -> <<"%", "2", "F">>
          [] c = ":" -> <<"%", "3", "A">>
          [] c = "+" -> <<"%", "2", "B">>
          [] c = "%" -> <<"%", "2", "5">>
          [] c = "[" -> <<"%", "5", "B">>
          [] c = "]" -> <<"%", "5", "D">>]
quote_char(c) ==
    IF c \in Unreserved THEN <<c>> ELSE IF c = " " THEN <<"+">> ELSE PercentCode[c]
quote_plus(s) == concat([i \in 1..Len(s) |-> quote_char(s[i])])

\* urllib.parse.urlencode of a mapping: k=v pairs joined by '&'.
urlencode(params) ==
    join(<<"&">>, [i \in 1..Len(params) |->
                      quote_plus(params[i][1]) \o <<"=">> \o quote_plus(params[i][2])])

(***************************************************************************)
(* build_curl_command                                                      *)
(***************************************************************************)
Opt_curl == <<"c", "u", "r", "l">>
Opt_s == <<"-", "s">>
Opt_D == <<"-", "D">>
Opt_dash == <<"-">>
Opt_X == <<"-", "X">>
Opt_H == <<"-", "H">>
Opt_d == <<"-", "d">>
Opt_w == <<"-", "w">>
Opt_data_urlencode ==
    <<"-", "-", "d", "a", "t", "a", "-", "u", "r", "l", "e", "n", "c", "o", "d", "e">>
\* '\nHTTP Status: %{http_code}\n'
StatusFormat ==
    <<LF>> \o StatusLabel
       \o <<"%", "{", "h", "t", "t", "p", "_", "c", "o", "d", "e", "}">> \o <<LF>>

\* config.get('method', 'GET')
method_of(cfg) == IF "method" \in cfg.keys THEN cfg.method ELSE Str_GET
\* config.get('params', {}) and config.get('headers', {})
params_of(cfg) == IF "params" \in cfg.keys THEN cfg.params ELSE <<>>
headers_of(cfg) == IF "headers" \in cfg.keys THEN cfg.headers ELSE <<>>

\* A slip: the method is compared as written, so 'get' gets no query string.
full_url_case_sensitive(cfg) ==
    IF params_of(cfg) # <<>> /\ method_of(cfg) = Str_GET
    THEN cfg.url \o <<"?">> \o urlencode(params_of(cfg))
    ELSE cfg.url

\* The URL argument: the query string is appended for a GET with params.
full_url_of(cfg) ==
    IF params_of(cfg) # <<>> /\ upper(method_of(cfg)) = Str_GET
    THEN cfg.url \o <<"?">> \o urlencode(params_of(cfg))
    ELSE cfg.url

\* The -H arguments, one pair per header.
header_args(cfg) ==
    concat([i \in 1..Len(headers_of(cfg)) |->
              <<Opt_H, headers_of(cfg)[i][1] \o <<":", " ">> \o headers_of(cfg)[i][2]>>])

\* The body arguments of a POST or PUT.
body_args(cfg) ==
    IF upper(method_of(cfg)) \in {Str_POST, Str_PUT}
    THEN IF "data" \in cfg.keys
         THEN <<Opt_d, cfg.data>>
         ELSE concat([i \in 1..Len(params_of(cfg)) |->
                        <<Opt_data_urlencode,
                          params_of(cfg)[i][1] \o <<"=">> \o params_of(cfg)[i][2]>>])
    ELSE <<>>

build_curl_command(cfg, show_headers) ==
    <<Opt_curl, Opt_s>>
        \o (IF show_headers THEN <<Opt_D, Opt_dash>> ELSE <<>>)
        \o <<Opt_X, method_of(cfg), full_url_of(cfg)>>
        \o header_args(cfg)
        \o body_args(cfg)
        \o <<Opt_w, StatusFormat>>

(***************************************************************************)
(* Specification BuildSpec: build_curl_command called twice on a           *)
(* specification.                                                          *)
(***************************************************************************)
\* The most params, and the most headers, of a specification.
MaxParams == 2
MaxHeaders == 2

Url_xy == <<"h", "t", "t", "p", ":", "/", "/", "x", "/", "y">>
BuildMethods == {Str_GET, <<"g", "e", "t">>, Str_POST, <<"P", "u", "t">>,
                 <<"D", "E", "L", "E", "T", "E">>}
ParamKeys == {<<"a">>, <<"b">>, <<"k", " ", "&">>}
ParamValues == {<<"1">>, <<"2">>}
HeaderKeys == {<<"A", "c", "c", "e", "p", "t">>, <<"X">>}
HeaderValues == {<<"v">>}
DataValues == {<<>>, <<"d", "=", "1">>}

\* The mappings of at most n entries with distinct keys, in every order.
Mappings(K, V, n) ==
    {m \in SeqsUpTo(K \X V, n) :
        \A i, j \in 1..Len(m) : m[i][1] = m[j][1] => i = j}

OptionalKeys == {"method", "params", "headers", "data"}

\* A document of the templates directory: url is required.
BuildConfigs ==
    {[keys |-> ks \cup {"url"}, method |-> m, url |-> Url_xy,
      params |-> ps, headers |-> hs, data |-> d] :
        ks \in SUBSET OptionalKeys,
        m \in BuildMethods \cup {<<>>},
        ps \in Mappings(ParamKeys, ParamValues, MaxParams),
        hs \in Mappings(HeaderKeys, HeaderValues, MaxHeaders),
        d \in DataValues}

\* A field the document does not have holds the empty value, and a method
\* that is given is one of the methods.
WellFormed(cfg) ==
    /\ ("method" \in cfg.keys) = (cfg.method # <<>>)
    /\ "params" \notin cfg.keys => cfg.params = <<>>
    /\ "headers" \notin cfg.keys => cfg.headers = <<>>
    /\ "data" \notin cfg.keys => cfg.data = <<>>

NotBuilt == [calls |-> 0, first |-> <<>>, second |-> <<>>]

BuildFirst ==
    /\ bOut.calls = 0
    /\ bOut' = [bOut EXCEPT !.calls = 1,
                            !.first = build_curl_command(bIn.config, bIn.show_headers)]
    /\ UNCHANGED <<bIn, mainVars, parseVars>>

BuildSecond ==
    /\ bOut.calls = 1
    /\ bOut' = [bOut EXCEPT !.calls = 2,
                            !.second = build_curl_command(bIn.config, bIn.show_headers)]
    /\ UNCHANGED <<bIn, mainVars, parseVars>>

(***************************************************************************)
(* The regular expressions of needs_bearer_token                           *)
(***************************************************************************)
\* The position of the first ']' after position i, 0 when there is none.
next_close(s, i) ==
    LET closes == {j \in (i + 1)..Len(s) : s[j] = "]"}
    IN  IF closes = {} THEN 0 ELSE CHOOSE j \in closes : \A k \in closes : j <= k

\* Where \[([^\]]+)\] matches at position i: '[', one or more characters that
\* are not ']', then ']'.
search_matches_at(s, i) == s[i] = "[" /\ next_close(s, i) >= i + 2

\* re.search(r"\[([^\]]+)\]", s): the leftmost match and its group 1.
re_search_bracket(s) ==
    LET starts == {i \in 1..Len(s) : search_matches_at(s, i)}
        i == CHOOSE k \in starts : \A m \in starts : k <= m
    IN  IF starts = {} THEN [found |-> FALSE, start |-> 0, end |-> 0, group |-> <<>>]
        ELSE [found |-> TRUE, start |-> i, end |-> next_close(s, i),
              group |-> SubSeq(s, i + 1, next_close(s, i) - 1)]

\* Where \[.*?\] matches at position i: '[', as few characters as possible
\* of one line ('.' does not match a line feed), then ']'.
sub_matches_at(s, i) ==
    /\ s[i] = "["
    /\ next_close(s, i) # 0
    /\ \A k \in (i + 1)..(next_close(s, i) - 1) : s[k] # LF

\* The control characters the escapes \a, \b, \f and \v stand for.
BEL == "<BEL>"
BS == "<BS>"
FF == "<FF>"
VT == "<VT>"

\* The replacement template of re.sub: a backslash starts an escape.  \\ is a
\* backslash and \a, \b, \f, \n, \r, \t, \v are control characters; a
\* backslash before another ASCII letter, before a digit 1-9 (a reference to
\* a group the pattern does not have) or at the end of the template is an
\* error (re.error); a backslash before any other character stays with that
\* character.  (\g<..> and the octal escapes \0.. are not modelled: no
\* template of the model holds them.)
TemplateBadLetters == (Letters \ {"a", "b", "f", "g", "n", "r", "t", "v"})
RECURSIVE expand_template(_)
expand_template(t) ==
    IF t = <<>> THEN [ok |-> TRUE, val |-> <<>>]
    ELSE IF Head(t) # BSL
    THEN LET rest == expand_template(Tail(t))
         IN  IF rest.ok THEN [ok |-> TRUE, val |-> <<Head(t)>> \o rest.val] ELSE rest
    ELSE IF Len(t) = 1 \/ t[2] \in TemplateBadLetters \cup (Digits \ {"0"})
    THEN [ok |-> FALSE, val |-> <<>>]
    ELSE LET rest == expand_template(Drop(t, 2))
             out == CASE t[2] = BSL -> <<BSL>>
                      [] t[2] = "n" -> <<LF>>
                      [] t[2] = "r" -> <<CR>>
                      [] t[2] = "t" -> <<TAB>>
                      [] t[2] = "a" -> <<BEL>>
                      [] t[2] = "b" -> <<BS>>
                      [] t[2] = "f" -> <<FF>>
                      [] t[2] = "v" -> <<VT>>
                      [] OTHER -> <<BSL, t[2]>>
         IN  IF rest.ok THEN [ok |-> TRUE, val |-> out \o rest.val] ELSE rest

\* The text of s from position i on, each match of \[.*?\] replaced by repl.
RECURSIVE replace_from(_, _, _)
replace_from(s, i, repl) ==
    IF i > Len(s) THEN <<>>
    ELSE IF sub_matches_at(s, i)
    THEN repl \o replace_from(s, next_close(s, i) + 1, repl)
    ELSE <<s[i]>> \o replace_from(s, i + 1, repl)

\* re.sub(r"\[.*?\]", repl, s): [ok |-> FALSE] when the template is in error.
re_sub_bracket(repl, s) ==
    LET t == expand_template(repl)
    IN  IF t.ok THEN [ok |-> TRUE, val |-> replace_from(s, 1, t.val)]
        ELSE [ok |-> FALSE, val |-> <<>>]

(***************************************************************************)
(* int() of a text                                                         *)
(***************************************************************************)
DigitValue ==
    [c \in Digits |->
        CASE c = "0" -> 0 [] c = "1" -> 1 [] c = "2" -> 2 [] c = "3" -> 3
          [] c = "4" -> 4 [] c = "5" -> 5 [] c = "6" -> 6 [] c = "7" -> 7
          [] c = "8" -> 8 [] c = "9" -> 9]

RECURSIVE digits_value(_)
digits_value(ds) ==
    IF ds = <<>> THEN 0
    ELSE IF ds[Len(ds)] = "_" THEN digits_value(SubSeq(ds, 1, Len(ds) - 1))
    ELSE 10 * digits_value(SubSeq(ds, 1, Len(ds) - 1)) + DigitValue[ds[Len(ds)]]

\* int(s): surrounding whitespace, a sign, digits with single underscores
\* between them; [ok |-> FALSE] is ValueError.
py_int(s) ==
    LET t == strip(s)
        signed == t # <<>> /\ t[1] \in {"+", "-"}
        ds == IF signed THEN Tail(t) ELSE t
        valid == /\ ds # <<>>
                 /\ \A i \in 1..Len(ds) : ds[i] \in Digits \cup {"_"}
                 /\ ds[1] # "_" /\ ds[Len(ds)] # "_"
                 /\ \A i \in 1..(Len(ds) - 1) : ~(ds[i] = "_" /\ ds[i + 1] = "_")
    IN  IF valid
        THEN [ok |-> TRUE,
              val |-> IF signed /\ t[1] = "-" THEN 0 - digits_value(ds) ELSE digits_value(ds)]
        ELSE [ok |-> FALSE, val |-> 0]

(***************************************************************************)
(* json.loads, on the JSON of the model: objects, arrays, strings with the *)
(* escapes \" \\ \/ \n \r \t, integers, and null, true, false.  A value is *)
(* a record tagged by t; a failed parse is [ok |-> FALSE]                  *)
(* (json.JSONDecodeError).                                                 *)
(***************************************************************************)
JsonWhitespace == {" ", LF, CR, TAB}
JsonFail == [ok |-> FALSE]
JsonOk(v, pos) == [ok |-> TRUE, val |-> v, pos |-> pos]

Lit_null == <<"n", "u", "l", "l">>
Lit_true == <<"t", "r", "u", "e">>
Lit_false == <<"f", "a", "l", "s", "e">>

RECURSIVE skip_ws(_, _)
skip_ws(s, i) == IF i <= Len(s) /\ s[i] \in JsonWhitespace THEN skip_ws(s, i + 1) ELSE i

\* The characters of a string from position i (after the opening quote).
RECURSIVE json_string(_, _, _)
json_string(s, i, acc) ==
    IF i > Len(s) THEN JsonFail
    ELSE IF s[i] = QUOTE THEN JsonOk([t |-> "str", chars |-> acc], i + 1)
    ELSE IF s[i] \in {LF, CR, TAB} THEN JsonFail
    ELSE IF s[i] # BSL THEN json_string(s, i + 1, Append(acc, s[i]))
    ELSE IF i + 1 > Len(s) THEN JsonFail
    ELSE CASE s[i + 1] \in {QUOTE, BSL, "/"} -> json_string(s, i + 2, Append(acc, s[i + 1]))
           [] s[i + 1] = "n" -> json_string(s, i + 2, Append(acc, LF))
           [] s[i + 1] = "r" -> json_string(s, i + 2, Append(acc, CR))
           [] s[i + 1] = "t" -> json_string(s, i + 2, Append(acc, TAB))
           [] OTHER -> JsonFail

\* The end of the digits that start at position i.
RECURSIVE digits_end(_, _)
digits_end(s, i) == IF i <= Len(s) /\ s[i] \in Digits THEN digits_end(s, i + 1) ELSE i

\* An integer at position i: '-'? ( '0' | [1-9][0-9]* ).
json_number(s, i) ==
    LET neg == s[i] = "-"
        d == IF neg THEN i + 1 ELSE i
        e == IF d <= Len(s) /\ s[d] = "0" THEN d + 1 ELSE digits_end(s, d)
    IN  IF e = d THEN JsonFail
        ELSE JsonOk([t |-> "num", neg |-> neg, digits |-> SubSeq(s, d, e - 1)], e)

RECURSIVE json_value(_, _), json_members(_, _, _), json_elements(_, _, _)

\* The members of an object from position i, where a key must start.
json_members(s, i, acc) ==
    IF i > Len(s) \/ s[i] # QUOTE THEN JsonFail
    ELSE LET k == json_string(s, i + 1, <<>>)
         IN  IF ~k.ok THEN JsonFail
             ELSE LET c == skip_ws(s, k.pos)
                  IN  IF c > Len(s) \/ s[c] # ":" THEN JsonFail
                      ELSE LET v == json_value(s, c + 1)
                           IN  IF ~v.ok THEN JsonFail
                               ELSE LET e == skip_ws(s, v.pos)
                                        all == Append(acc, <<k.val.chars, v.val>>)
                                    IN  IF e > Len(s) THEN JsonFail
                                        ELSE IF s[e] = "}"
                                        THEN JsonOk([t |-> "obj", members |-> all], e + 1)
                                        ELSE IF s[e] = ","
                                        THEN json_members(s, skip_ws(s, e + 1), all)
                                        ELSE JsonFail

\* The elements of an array from position i, where a value must start.
json_elements(s, i, acc) ==
    LET v == json_value(s, i)
    IN  IF ~v.ok THEN JsonFail
        ELSE LET e == skip_ws(s, v.pos)
                 all == Append(acc, v.val)
             IN  IF e > Len(s) THEN JsonFail
                 ELSE IF s[e] = "]" THEN JsonOk([t |-> "arr", items |-> all], e + 1)
                 ELSE IF s[e] = "," THEN json_elements(s, e + 1, all)
                 ELSE JsonFail

json_value(s, i0) ==
    LET i == skip_ws(s, i0)
    IN  IF i > Len(s) THEN JsonFail
        ELSE CASE s[i] = "{" ->
                    LET m == skip_ws(s, i + 1)
                    IN  IF m <= Len(s) /\ s[m] = "}"
                        THEN JsonOk([t |-> "obj", members |-> <<>>], m + 1)
                        ELSE json_members(s, m, <<>>)
               [] s[i] = "[" ->
                    LET m == skip_ws(s, i + 1)
                    IN  IF m <= Len(s) /\ s[m] = "]"
                        THEN JsonOk([t |-> "arr", items |-> <<>>], m + 1)
                        ELSE json_elements(s, m, <<>>)
               [] s[i] = QUOTE -> json_string(s, i + 1, <<>>)
               [] s[i] \in Digits \cup {"-"} -> json_number(s, i)
               [] OccursAt(s, Lit_null, i) -> JsonOk([t |-> "null"], i + 4)
               [] OccursAt(s, Lit_true, i) -> JsonOk([t |-> "bool", b |-> TRUE], i + 4)
               [] OccursAt(s, Lit_false, i) -> JsonOk([t |-> "bool", b |-> FALSE], i + 5)
               [] OTHER -> JsonFail

\* json.loads(body): one value and nothing but whitespace around it.
json_loads(body) ==
    LET v == json_value(body, 1)
    IN  IF v.ok /\ skip_ws(body, v.pos) > Len(body)
        THEN [ok |-> TRUE, val |-> v.val]
        ELSE [ok |-> FALSE, val |-> [t |-> "null"]]

\* parsed.get(key) of a dict: the value of the last member with that key;
\* [some |-> FALSE] stands for None.
json_get(obj, key) ==
    LET hits == {i \in 1..Len(obj.members) : obj.members[i][1] = key}
    IN  IF hits = {} THEN [some |-> FALSE, val |-> [t |-> "null"]]
        ELSE [some |-> TRUE,
              val |-> obj.members[CHOOSE i \in hits : \A j \in hits : j <= i][2]]

\* bool(value): None, '', 0, False and the empty containers are false.
truthy(v) ==
    CASE v.t = "null" -> FALSE
      [] v.t = "str" -> v.chars # <<>>
      [] v.t = "num" -> \E i \in 1..Len(v.digits) : v.digits[i] # "0"
      [] v.t = "bool" -> v.b
      [] v.t = "arr" -> v.items # <<>>
      [] v.t = "obj" -> v.members # <<>>

(***************************************************************************)
(* A run of main()                                                         *)
(***************************************************************************)
\* The status of a successful token request.
HTTP_OK == 200

Str_ERROR == <<"E", "R", "R", "O", "R">>
Str_accesstoken == <<"a", "c", "c", "e", "s", "s", "t", "o", "k", "e", "n">>

\* The values needs_bearer_token returns: None or a text.
None == [kind |-> "None", val |-> <<>>]
Text(s) == [kind |-> "str", val |-> s]

\* handle_error(message): prints the message and returns "ERROR".
handle_error == Text(Str_ERROR)

MainPcs == {"idle", "start", "token_running", "resolved", "primary_running",
            "exited", "done", "crashed"}
ErrorKinds == {"none", "FileNotFound", "InvalidStatus", "TokenRequestFailed",
               "EmptyBody", "MalformedJSON", "TokenMissing"}

\* The Authorization value of a specification, None when it has none.
authorization_of(cfg) == dict_get(headers_of(cfg), Str_Authorization)

\* The history of a run: each command built (with the Authorization value of
\* the specification it was built from) and each external process.
NoAuth == [some |-> FALSE, val |-> <<>>]
Built(who, cfg) == [op |-> "build", who |-> who, auth |-> authorization_of(cfg)]
Spawned(who) == [op |-> "spawn", who |-> who, auth |-> NoAuth]
Exited(who) == [op |-> "exit", who |-> who, auth |-> NoAuth]

NoToken == [name |-> <<>>, output |-> <<>>, http_code |-> <<>>, body |-> <<>>,
            before |-> <<>>]

\* ---- the documents of the templates directory ----
Name_t == <<"t">>
Name_tt == <<"t", "t">>
Name_auth_yml == <<"a", "u", "t", "h", ".", "y", "m", "l">>
Url_token == <<"h", "t", "t", "p", ":", "/", "/", "x", "/", "t">>

\* A token request: a POST with its credentials as params.
TokenDocument ==
    [keys |-> {"url", "method", "params"}, method |-> Str_POST, url |-> Url_token,
     params |-> <<<<<<"i", "d">>, <<"u">>>>, <<<<"p", "w">>, <<"s">>>>>>,
     headers |-> <<>>, data |-> <<>>]

\* A token request that itself needs a token.
ChainedTokenDocument ==
    [keys |-> {"url", "method", "headers"}, method |-> Str_POST, url |-> Url_token,
     params |-> <<>>,
     headers |-> <<<<Str_Authorization, <<"B", " ", "[", "t", "]">>>>>>, data |-> <<>>]

\* Path("templates") / name, for the names that exist.
Templates ==
    [n \in {Name_t, Name_tt, Name_auth_yml} |->
        IF n = Name_tt THEN ChainedTokenDocument ELSE TokenDocument]

\* config_path.exists()
path_exists(name) == name \in DOMAIN Templates
\* load_curl_config(config_path)
load_curl_config(name) == Templates[name]

\* ---- needs_bearer_token, up to the token request ----
\* What the resolver finds in the specification: the headers are missing
\* (config["headers"] raises KeyError), no token is needed, the document
\* named between the brackets does not exist, or a token request is due.
token_need(cfg) ==
    IF "headers" \notin cfg.keys THEN [need |-> "KeyError", name |-> <<>>]
    ELSE LET authorization_value == dict_get(cfg.headers, Str_Authorization)
             match == re_search_bracket(authorization_value.val)
         IN  IF ~authorization_value.some THEN [need |-> "none", name |-> <<>>]
             ELSE IF ~match.found THEN [need |-> "none", name |-> <<>>]
             ELSE IF ~path_exists(match.group)
             THEN [need |-> "missing", name |-> match.group]
             ELSE [need |-> "request", name |-> match.group]

needs_bearer_token_begin ==
    /\ pc = "start"
    /\ LET n == token_need(config)
       IN  CASE n.need = "KeyError" ->
                  /\ pc' = "crashed"
                  /\ exception' = "KeyError"
                  /\ exitStatus' = 1
                  /\ UNCHANGED <<ret, errorKind, events, token>>
             [] n.need = "none" ->
                  /\ pc' = "resolved"
                  /\ ret' = None
                  /\ UNCHANGED <<exception, exitStatus, errorKind, events, token>>
             [] n.need = "missing" ->
                  /\ pc' = "resolved"
                  /\ ret' = handle_error
                  /\ errorKind' = "FileNotFound"
                  /\ token' = [token EXCEPT !.name = n.name]
                  /\ UNCHANGED <<exception, exitStatus, events>>
             [] n.need = "request" ->
                  /\ pc' = "token_running"
                  /\ token' = [token EXCEPT !.name = n.name]
                  /\ events' = events \o <<Built("token", load_curl_config(n.name)),
                                           Spawned("token")>>
                  /\ UNCHANGED <<ret, exception, exitStatus, errorKind>>
    /\ UNCHANGED <<args, config, config0, cmd, shown, parseVars, buildVars>>

\* ---- needs_bearer_token, from the token response on ----
\* A slip: only the error statuses, from 400 on, fail the token request.
status_error_from_400(http_code) ==
    LET code == py_int(http_code)
    IN  IF ~code.ok THEN "InvalidStatus"
        ELSE IF code.val >= 400 THEN "TokenRequestFailed"
        ELSE "none"

\* The check of the status code: int(http_code) != 200, and ValueError.
status_error(http_code) ==
    LET code == py_int(http_code)
    IN  IF ~code.ok THEN "InvalidStatus"
        ELSE IF code.val # HTTP_OK THEN "TokenRequestFailed"
        ELSE "none"

Failed(kind, cfg) ==
    [ret |-> handle_error, error |-> kind, exception |-> "none", config |-> cfg]
Raised(exc, cfg) ==
    [ret |-> None, error |-> "none", exception |-> exc, config |-> cfg]

\* The checks of the body and the substitution of the token.
body_outcome(cfg, body) ==
    IF body = <<>> THEN Failed("EmptyBody", cfg)
    ELSE LET parsed == json_loads(body)
         IN  IF ~parsed.ok THEN Failed("MalformedJSON", cfg)
             ELSE IF parsed.val.t # "obj" THEN Raised("AttributeError", cfg)
             ELSE LET access_token == json_get(parsed.val, Str_accesstoken)
                  IN  IF ~access_token.some \/ ~truthy(access_token.val)
                      THEN Failed("TokenMissing", cfg)
                      ELSE IF access_token.val.t # "str" THEN Raised("TypeError", cfg)
                      ELSE LET new == re_sub_bracket(access_token.val.chars,
                                                     authorization_of(cfg).val)
                           IN  IF ~new.ok THEN Raised("re.error", cfg)
                               ELSE [ret |-> Text(access_token.val.chars),
                                     error |-> "none", exception |-> "none",
                                     config |-> [cfg EXCEPT !.headers =
                                         dict_set(@, Str_Authorization, new.val)]]

token_outcome(cfg, output) ==
    LET parsed == parse_curl_output(output, FALSE)
    IN  IF status_error(parsed.http_code) # "none"
        THEN Failed(status_error(parsed.http_code), cfg)
        ELSE body_outcome(cfg, parsed.body)

\* ---- what the token endpoint and curl may answer ----
Quoted(s) == <<QUOTE>> \o s \o <<QUOTE>>
\* The JSON text {"key":value}.
JsonObject(key, value) == <<"{">> \o Quoted(key) \o <<":">> \o value \o <<"}">>

Token_abc123 == <<"a", "b", "c", "1", "2", "3">>
\* The JSON texts of the tokens: abc123, ERROR, [t], x\n (a backslash and an
\* n) and x\ (a backslash at the end).
TokenTexts ==
    {Token_abc123, Str_ERROR, <<"[", "t", "]">>,
     <<"x", BSL, BSL, "n">>, <<"x", BSL, BSL>>}

TokenBodies ==
    {<<>>, <<" ">>,
     <<"o", "o", "p", "s">>, <<"{">>,
     <<"[", "]">>, Lit_null, <<"7">>, Quoted(Token_abc123),
     <<"{", "}">>,
     JsonObject(<<"x">>, Quoted(Token_abc123)),
     JsonObject(Str_accesstoken, Quoted(<<>>)),
     JsonObject(Str_accesstoken, Lit_null),
     JsonObject(Str_accesstoken, <<"0">>),
     JsonObject(Str_accesstoken, <<"7">>)}
    \cup {JsonObject(Str_accesstoken, Quoted(t)) : t \in TokenTexts}

TokenStatusCodes == {<<"2", "0", "0">>, <<"4", "0", "4">>}

\* Output without the marker: nothing, text, and texts whose last three
\* characters int() accepts.
UnmarkedOutputs == {<<>>, <<"a", "b", "c">>, <<"x", " ", "2", "0">>, <<"2", "0", "0">>}

\* A response of the endpoint, the 000 of a curl that reached no server, or
\* output without the marker.
TokenOutputs ==
    {b \o WriteOut(c) : b \in TokenBodies, c \in TokenStatusCodes}
        \cup {WriteOut(<<"0", "0", "0">>)} \cup UnmarkedOutputs

\* The primary request's output, with the response headers when -D - was given.
PrimaryOutputs(show_headers) ==
    IF show_headers
    THEN {<<"H", CR, LF, CR, LF, "{", "}">> \o WriteOut(<<"2", "0", "0">>),
          <<"H", LF, LF, "n", "o">> \o WriteOut(<<"4", "0", "4">>),
          WriteOut(<<"0", "0", "0">>)}
    ELSE {<<"{", "}">> \o WriteOut(<<"2", "0", "0">>),
          <<"n", "o">> \o WriteOut(<<"4", "0", "4">>),
          WriteOut(<<"0", "0", "0">>)}

needs_bearer_token_finish ==
    /\ pc = "token_running"
    /\ \E output \in TokenOutputs :
         LET o == token_outcome(config, output)
             parsed == parse_curl_output(output, FALSE)
         IN  /\ token' = [token EXCEPT !.output = output,
                                       !.http_code = parsed.http_code,
                                       !.body = parsed.body,
                                       !.before = authorization_of(config).val]
             /\ events' = Append(events, Exited("token"))
             /\ IF o.exception # "none"
                THEN /\ pc' = "crashed"
                     /\ exception' = o.exception
                     /\ exitStatus' = 1
                     /\ UNCHANGED <<ret, errorKind, config>>
                ELSE /\ pc' = "resolved"
                     /\ ret' = o.ret
                     /\ errorKind' = o.error
                     /\ config' = o.config
                     /\ UNCHANGED <<exception, exitStatus>>
    /\ UNCHANGED <<args, config0, cmd, shown, parseVars, buildVars>>

\* ---- main, after needs_bearer_token ----
\* A slip: main compares with a sentinel handle_error never returns.
main_aborts_other_sentinel(r) == r = Text(<<"E", "r", "r", "o", "r">>)

\* needs_bearer_token(config) == "ERROR"
main_aborts(r) == r = Text(Str_ERROR)

main_after_token ==
    /\ pc = "resolved"
    /\ IF main_aborts(ret)
       THEN /\ pc' = "exited"
            /\ exitStatus' = 1
            /\ UNCHANGED <<cmd, events>>
       ELSE /\ pc' = "primary_running"
            /\ cmd' = build_curl_command(config, args.show_header)
            /\ events' = events \o <<Built("primary", config), Spawned("primary")>>
            /\ UNCHANGED exitStatus
    /\ UNCHANGED <<args, config, config0, ret, errorKind, exception, token, shown,
                   parseVars, buildVars>>

\* str.replace('\n', '\\n')
RECURSIVE escape_newlines(_)
escape_newlines(s) ==
    IF s = <<>> THEN <<>>
    ELSE (IF Head(s) = LF THEN <<BSL, "n">> ELSE <<Head(s)>>) \o escape_newlines(Tail(s))

\* display_commands(cmd): the last argument is escaped in place.
display_commands(c) == [c EXCEPT ![Len(c)] = escape_newlines(@)]

NotShown == [header |-> <<>>, body |-> <<>>, http_code |-> <<>>, json |-> FALSE]

\* display_result(result, show_headers): the body is printed as JSON when it
\* parses as JSON.
display_result(output, show_headers) ==
    LET parsed == parse_curl_output(output, show_headers)
    IN  [header |-> parsed.header, body |-> parsed.body, http_code |-> parsed.http_code,
         json |-> json_loads(parsed.body).ok]

display ==
    /\ pc = "primary_running"
    /\ \E output \in PrimaryOutputs(args.show_header) :
         /\ events' = Append(events, Exited("primary"))
         /\ cmd' = IF args.show_command THEN display_commands(cmd) ELSE cmd
         /\ shown' = display_result(output, args.show_header)
    /\ pc' = "done"
    /\ exitStatus' = 0
    /\ UNCHANGED <<args, config, config0, ret, errorKind, exception, token,
                   parseVars, buildVars>>

(***************************************************************************)
(* The specifications                                                      *)
(***************************************************************************)
\* The longest Authorization value drawn from AuthAlphabet.
MaxAuthLen == 3

AuthAlphabet == {"B", "[", "]", "t"}
Auth_Bearer_auth_yml ==
    <<"B", "e", "a", "r", "e", "r", " ", "[">> \o Name_auth_yml \o <<"]">>
\* Every short value, the 'Bearer [auth.yml]' of the documentation, and a
\* reference to the token request that itself needs a token.
AuthValues ==
    SeqsUpTo(AuthAlphabet, MaxAuthLen)
        \cup {Auth_Bearer_auth_yml, <<"[">> \o Name_tt \o <<"]">>}

Str_Accept == <<"A", "c", "c", "e", "p", "t">>

\* The primary documents: without headers, with headers that hold no
\* Authorization, and with each Authorization value.
MainConfig(keys, headers) ==
    [keys |-> keys, method |-> Str_GET, url |-> Url_xy,
     params |-> <<<<<<"a">>, <<"1">>>>, <<<<"b">>, <<"2">>>>>>,
     headers |-> headers, data |-> <<>>]
MainConfigs ==
    {MainConfig({"url", "method", "params"}, <<>>),
     MainConfig({"url", "method", "params", "headers"}, <<<<Str_Accept, <<"v">>>>>>)}
    \cup {MainConfig({"url", "method", "params", "headers"},
                     <<<<Str_Accept, <<"v">>>>, <<Str_Authorization, a>>>>) :
            a \in AuthValues}

\* No specification is loaded.
IdleConfig ==
    [keys |-> {"url"}, method |-> <<>>, url |-> Url_xy,
     params |-> <<>>, headers |-> <<>>, data |-> <<>>]

MainIdle ==
    /\ pc = "idle"
    /\ args = [show_header |-> FALSE, show_command |-> FALSE]
    /\ config = IdleConfig
    /\ config0 = config
    /\ ret = None
    /\ errorKind = "none"
    /\ exception = "none"
    /\ exitStatus = -1
    /\ events = <<>>
    /\ token = NoToken
    /\ cmd = <<>>
    /\ shown = NotShown
ParseIdle ==
    /\ pIn = [R |-> <<>>, ddd |-> <<>>, output |-> <<>>]
    /\ pOut = NotParsed
BuildIdle ==
    /\ bIn = [config |-> IdleConfig, show_headers |-> FALSE]
    /\ bOut = NotBuilt

\* main(): parse_args() and load_config(args.yaml_filename).
Init ==
    /\ pc = "start"
    /\ args \in [show_header : BOOLEAN, show_command : BOOLEAN]
    /\ config \in MainConfigs
    /\ config0 = config
    /\ ret = None
    /\ errorKind = "none"
    /\ exception = "none"
    /\ exitStatus = -1
    /\ events = <<>>
    /\ token = NoToken
    /\ cmd = <<>>
    /\ shown = NotShown
    /\ ParseIdle
    /\ BuildIdle

Next ==
    \/ needs_bearer_token_begin
    \/ needs_bearer_token_finish
    \/ main_after_token
    \/ display

Spec == Init /\ [][Next]_vars

\* The program is sequential: its own steps are taken; whether an external
\* process ever ends is not the program's to decide.
FairSpec ==
    Spec /\ WF_vars(needs_bearer_token_begin) /\ WF_vars(main_after_token)

ParseInit ==
    /\ MainIdle
    /\ BuildIdle
    /\ pIn \in ParseInputs
    /\ pOut = NotParsed
ParseNext == ParsePlain \/ ParseWithHeaders
ParseSpec == ParseInit /\ [][ParseNext]_vars

BuildInit ==
    /\ MainIdle
    /\ ParseIdle
    /\ bIn \in {[config |-> c, show_headers |-> h] :
                    c \in {x \in BuildConfigs : WellFormed(x)}, h \in BOOLEAN}
    /\ bOut = NotBuilt
BuildNext == BuildFirst \/ BuildSecond
BuildSpec == BuildInit /\ [][BuildNext]_vars

(***************************************************************************)
(* The claims                                                              *)
(***************************************************************************)
\* The positions of the history where op happened for who.
EventsOf(op, who) == {i \in 1..Len(events) : events[i].op = op /\ events[i].who = who}

\* A text holds a bracket-delimited reference: '[', a name, ']'.
HasReference(s) ==
    \E i, j \in 1..Len(s) :
        /\ i + 1 < j
        /\ s[i] = "[" /\ s[j] = "]"
        /\ \A k \in (i + 1)..(j - 1) : s[k] # "]"

\* C1: whenever build_curl_command is invoked during a run of main, on the
\* primary specification or on the token specification, the Authorization
\* value of that specification holds no bracket-delimited reference.
C1_BuildsSeeNoReference ==
    \A i \in 1..Len(events) :
        events[i].op = "build" => ~(events[i].auth.some /\ HasReference(events[i].auth.val))

\* The specification as loaded has no Authorization value, or one without a
\* bracket-delimited substring (a '[' with a ']' after it).
NoBracketedAuthorization ==
    LET a == authorization_of(config0)
    IN  ~a.some \/ ~\E i, j \in 1..Len(a.val) : i < j /\ a.val[i] = "[" /\ a.val[j] = "]"

\* C2: for a specification whose Authorization value is absent (also when it
\* has no headers mapping) or holds no bracket-delimited substring,
\* needs_bearer_token raises no exception, returns None (never "ERROR"),
\* starts no external process and leaves the specification unchanged.
C2_NoOpWithoutReference ==
    (NoBracketedAuthorization /\ pc # "start") =>
        /\ exception = "none"
        /\ ret = None
        /\ errorKind = "none"
        /\ EventsOf("spawn", "token") = {}
        /\ config = config0

\* Token resolution failed: an error was reported or the resolver raised.
ResolutionFailed == errorKind # "none" \/ exception # "none"
RunEnded == pc \in {"exited", "done", "crashed"}

\* C3: a run of main exits with status 1 exactly when token resolution
\* fails, and then the primary command is never built or executed; when
\* resolution is not needed or succeeds, whatever the token, the primary
\* command is built and executed exactly once, after the token process (if
\* any) has ended, and the run does not exit with status 1.
C3_ExitStatusFollowsResolution ==
    /\ ResolutionFailed =>
          EventsOf("build", "primary") = {} /\ EventsOf("spawn", "primary") = {}
    /\ \A i \in EventsOf("spawn", "token"), j \in 1..Len(events) :
          events[j].who = "primary" => \E k \in EventsOf("exit", "token") : i < k /\ k < j
    /\ RunEnded =>
          /\ (exitStatus = 1) = ResolutionFailed
          /\ ~ResolutionFailed =>
                /\ Cardinality(EventsOf("build", "primary")) = 1
                /\ Cardinality(EventsOf("spawn", "primary")) = 1
                /\ Cardinality(EventsOf("exit", "primary")) = 1

\* The token response has been received.
TokenAnswered == EventsOf("exit", "token") # {}
TokenStatus == py_int(token.http_code)
TokenJson == json_loads(token.body)
\* The accesstoken field of the token response, when its body is an object.
TokenField ==
    IF TokenJson.ok /\ TokenJson.val.t = "obj"
    THEN json_get(TokenJson.val, Str_accesstoken)
    ELSE [some |-> FALSE, val |-> [t |-> "null"]]
\* The Authorization value is as it was loaded.
AuthorizationUntouched == authorization_of(config) = authorization_of(config0)

\* before with its first bracketed reference replaced by t.
WithReferenceReplaced(before, t) ==
    LET m == re_search_bracket(before)
    IN  SubSeq(before, 1, m.start - 1) \o t \o SubSeq(before, m.end + 1, Len(before))

\* C4: when the token request returns status 200 and a JSON object whose
\* accesstoken is a non-empty text t, needs_bearer_token succeeds, returns t
\* and sets Authorization to the original value with the bracketed reference
\* replaced by exactly t, every other character and header unchanged.
C4_ReferenceReplacedByToken ==
    (/\ TokenAnswered
     /\ TokenStatus.ok /\ TokenStatus.val = HTTP_OK
     /\ TokenField.some /\ TokenField.val.t = "str" /\ TokenField.val.chars # <<>>) =>
        /\ exception = "none"
        /\ errorKind = "none"
        /\ ret = Text(TokenField.val.chars)
        /\ config = [config0 EXCEPT !.headers =
                        dict_set(@, Str_Authorization,
                                 WithReferenceReplaced(token.before, TokenField.val.chars))]

\* C5: for a token response with status 200, needs_bearer_token ends with
\* success or with one of the body errors: EmptyBody for an empty body,
\* MalformedJSON for a body that is not JSON, TokenMissing for every JSON
\* body in which accesstoken is missing or empty; on each of them "ERROR" is
\* returned and Authorization is left unchanged.
C5_BodyErrorsInOrder ==
    (TokenAnswered /\ TokenStatus.ok /\ TokenStatus.val = HTTP_OK) =>
        /\ exception = "none"
        /\ errorKind \in {"none", "EmptyBody", "MalformedJSON", "TokenMissing"}
        /\ token.body = <<>> => errorKind = "EmptyBody"
        /\ (token.body # <<>> /\ ~TokenJson.ok) => errorKind = "MalformedJSON"
        /\ (TokenJson.ok /\ ~(TokenField.some /\ truthy(TokenField.val))) =>
              errorKind = "TokenMissing"
        /\ errorKind # "none" => ret = Text(Str_ERROR) /\ AuthorizationUntouched

\* C6: the status check of the token response comes before every body
\* check: a status that int() rejects gives InvalidStatus, one that is not
\* 200 gives TokenRequestFailed, whatever the body; Authorization is not
\* modified.
C6_StatusCheckedFirst ==
    (TokenAnswered /\ ~(TokenStatus.ok /\ TokenStatus.val = HTTP_OK)) =>
        /\ exception = "none"
        /\ errorKind = (IF TokenStatus.ok THEN "TokenRequestFailed" ELSE "InvalidStatus")
        /\ ret = Text(Str_ERROR)
        /\ AuthorizationUntouched

\* A 404 whose body is a JSON object carrying a non-empty accesstoken.
C6_Witness ==
    /\ TokenAnswered
    /\ token.http_code = <<"4", "0", "4">>
    /\ token.body = JsonObject(Str_accesstoken, Quoted(Token_abc123))
    /\ errorKind = "TokenRequestFailed"
    /\ pc = "exited"

\* The Authorization value as loaded refers to a document that is not in the
\* templates directory.
MissingDocument ==
    LET a == authorization_of(config0)
    IN  a.some /\ re_search_bracket(a.val).found /\ ~path_exists(re_search_bracket(a.val).group)

\* C7: when Authorization refers to a document that does not exist, the run
\* aborts with FileNotFound and exit status 1, and no external process is
\* started at any point of the run.
C7_MissingDocumentAborts ==
    /\ [](MissingDocument =>
            /\ \A i \in 1..Len(events) : events[i].op # "spawn"
            /\ pc \in {"start", "resolved", "exited"}
            /\ pc # "start" => errorKind = "FileNotFound")
    /\ (MissingDocument ~> (pc = "exited" /\ exitStatus = 1 /\ errorKind = "FileNotFound"))

C7_Witness ==
    /\ MissingDocument
    /\ pc = "exited"
    /\ exitStatus = 1
    /\ token.name = <<"B">>

\* Two texts are equal but for the case of their letters.
SameIgnoringCase(a, b) ==
    Len(a) = Len(b) /\ \A i \in 1..Len(a) : upper_char(a[i]) = upper_char(b[i])

\* The query string of a mapping: k=v, URL-encoded, joined by '&'.
RECURSIVE C8_Query(_)
C8_Query(ps) ==
    IF ps = <<>> THEN <<>>
    ELSE quote_plus(ps[1][1]) \o <<"=">> \o quote_plus(ps[1][2])
            \o (IF Len(ps) > 1 THEN <<"&">> \o C8_Query(Tail(ps)) ELSE <<>>)

\* The argument sequence the claim describes.
C8_Reference(cfg, flag) ==
    LET m == IF "method" \in cfg.keys THEN cfg.method ELSE Str_GET
        ps == IF "params" \in cfg.keys THEN cfg.params ELSE <<>>
        hs == IF "headers" \in cfg.keys THEN cfg.headers ELSE <<>>
        sends_body == SameIgnoringCase(m, Str_POST) \/ SameIgnoringCase(m, Str_PUT)
        url == IF SameIgnoringCase(m, Str_GET) /\ Len(ps) > 0
               THEN cfg.url \o <<"?">> \o C8_Query(ps)
               ELSE cfg.url
        n == (IF flag THEN 2 ELSE 0) + 5 + 2 * Len(hs)
               + (IF ~sends_body THEN 0 ELSE IF "data" \in cfg.keys THEN 2 ELSE 2 * Len(ps))
               + 2
        h0 == (IF flag THEN 2 ELSE 0) + 5
        b0 == h0 + 2 * Len(hs)
    IN  [i \in 1..n |->
           CASE i = 1 -> Opt_curl
             [] i = 2 -> Opt_s
             [] flag /\ i = 3 -> Opt_D
             [] flag /\ i = 4 -> Opt_dash
             [] i = h0 - 2 -> Opt_X
             [] i = h0 - 1 -> m
             [] i = h0 -> url
             [] i > h0 /\ i <= b0 ->
                  IF (i - h0) % 2 = 1 THEN Opt_H
                  ELSE hs[(i - h0) \div 2][1] \o <<":", " ">> \o hs[(i - h0) \div 2][2]
             [] i > b0 /\ i <= n - 2 ->
                  IF "data" \in cfg.keys
                  THEN (IF i = b0 + 1 THEN Opt_d ELSE cfg.data)
                  ELSE IF (i - b0) % 2 = 1 THEN Opt_data_urlencode
                  ELSE ps[(i - b0) \div 2][1] \o <<"=">> \o ps[(i - b0) \div 2][2]
             [] i = n - 1 -> Opt_w
             [] i = n -> StatusFormat]

C8_Matches ==
    /\ bOut.calls >= 1 => bOut.first = C8_Reference(bIn.config, bIn.show_headers)
    /\ bOut.calls = 2 =>
          /\ bOut.second = C8_Reference(bIn.config, bIn.show_headers)
          /\ bOut.second = bOut.first

\* C8: build_curl_command returns the argument sequence of the reference
\* (curl -s, -D - iff the flag, -X method url with the query string for a GET
\* with params, a -H pair per header, for POST and PUT one -d body or a
\* --data-urlencode pair per param, and -w with the status format); a second
\* call returns the same sequence, and the specification is not changed.
C8_BuildMatchesReference == [][C8_Matches' /\ bIn' = bIn]_vars

\* The GET of http://x/y with params a=1, b=2, built twice with -D -.
C8_Witness ==
    /\ bOut.calls = 2
    /\ bIn.show_headers
    /\ bIn.config.method = <<"g", "e", "t">>
    /\ bIn.config.params = <<<<<<"a">>, <<"1">>>>, <<<<"b">>, <<"2">>>>>>
    /\ Len(bIn.config.headers) = 2
    /\ bOut.first[7] = Url_xy \o <<"?", "a", "=", "1", "&", "b", "=", "2">>

\* b is r without its leading and trailing whitespace.
IsTrimOf(b, r) ==
    \E i, j \in 0..Len(r) :
        /\ i <= j
        /\ b = SubSeq(r, i + 1, j)
        /\ \A k \in 1..i : r[k] \in Whitespace
        /\ \A k \in (j + 1)..Len(r) : r[k] \in Whitespace
        /\ b # <<>> => b[1] \notin Whitespace /\ b[Len(b)] \notin Whitespace

\* C9: for a captured text R followed by '\nHTTP Status: ddd\n',
\* parse_curl_output returns ddd as the status code and, when headers were not
\* requested, an empty header block and R without the marker, trimmed.
C9_MarkerStripped ==
    pOut.called =>
        /\ pOut.http_code = pIn.ddd
        /\ ~pOut.show_headers => pOut.header = <<>> /\ IsTrimOf(pOut.body, pIn.R)

C9_Witness ==
    /\ pOut.called
    /\ ~pOut.show_headers
    /\ pIn.R = <<LF, "a", CR, LF, "a", LF>>
    /\ pIn.ddd = <<"4", "0", "4">>
    /\ pOut.body = <<"a", CR, LF, "a">>

\* C10: with headers requested, the response block is split at the first
\* '\r\n\r\n' whenever the block holds one, and at the first '\n\n' only when
\* it holds no '\r\n\r\n'; header and body are the trimmed parts before and
\* after the separator.
C10_SplitAtFirstSeparator ==
    (pOut.called /\ pOut.show_headers) =>
        LET block == full_response_of(pIn.output)
            sep == IF find(block, HeaderSeparator) # 0 THEN HeaderSeparator ELSE BareSeparator
            at == find(block, sep)
        IN  at # 0 =>
              /\ pOut.header = strip(SubSeq(block, 1, at - 1))
              /\ pOut.body = strip(SubSeq(block, at + Len(sep), Len(block)))

====
